---- MODULE Spec2Model ----
(***************************************************************************)
(* Directory-size computation of rcutils (src/filesystem.c):               *)
(* rcutils_calculate_directory_size and                                    *)
(* rcutils_calculate_directory_size_with_recursion, with the worklist      *)
(* (dir_list_t) kept on an explicit heap, the allocator's allocate and     *)
(* deallocate calls, the directory handle, and both builds of the          *)
(* function (the POSIX branch and the _WIN32 branch).                      *)
(***************************************************************************)
EXTENDS Integers, Sequences, FiniteSets, TLC

(* ---------------------------------------------------------------- bounds *)

\* Largest small max_deepth argument a caller passes (0 = unlimited); the
\* caller passes the largest uint32_t as well.
MaxDepthArg == 3

\* Number of calls made against the same, unmodified tree.
MaxCalls == 2

\* Number of directory opens explored within one call (the universe holds
\* four directories, so a call of the program stays below it).
MaxOpens == 6

(* ------------------------------------------------------------- uint32_t *)

\* A uint32_t is held as its 32-bit pattern read in two's complement:
\* 0 .. 2^31 - 1 stand for themselves, -2^31 .. -1 for 2^31 .. 2^32 - 1.
INT32_MAX == 2147483647

\* The largest uint32_t, 2^32 - 1: all bits set.
UINT32_MAX == -1

\* x + 1 in uint32_t: 2^31 - 1 goes to 2^31, and 2^32 - 1 wraps to 0.
uint32_inc(x) == IF x = INT32_MAX THEN (-INT32_MAX) - 1 ELSE x + 1

\* a <= b between two uint32_t.
uint32_le(a, b) == IF (a >= 0) <=> (b >= 0) THEN a <= b ELSE a >= 0

(* ------------------------------------------------------------- sequences *)

Front(s) == SubSeq(s, 1, Len(s) - 1)

Last(s) == s[Len(s)]

(* ------------------------------------------------------- the file system *)

\* The NULL pointer, and the NULL / INVALID_HANDLE_VALUE directory handle.
NULL == 0

\* The argument directory_path: a relative path of one component.
directory_path == <<"root">>

\* The path names the file system may hold.
Universe ==
  { <<"root">>,
    <<"root", "a">>, <<"root", "a", "g">>,
    <<"root", "b">>, <<"root", "b", "c">>,
    <<"root", "b", "d">>, <<"root", "b", "d", "e">> }

\* What each name may be: a directory, a regular file, another kind of entry
\* (a fifo, a socket, a device), or absent.
Allowed(p) ==
  CASE p = <<"root">> -> {"dir", "file", "none"}
    [] p = <<"root", "a">> -> {"dir", "file", "other", "none"}
    [] p = <<"root", "a", "g">> -> {"file", "none"}
    [] p = <<"root", "b">> -> {"dir", "none"}
    [] p = <<"root", "b", "c">> -> {"file", "none"}
    [] p = <<"root", "b", "d">> -> {"dir", "none"}
    [] p = <<"root", "b", "d", "e">> -> {"file", "none"}

\* An entry exists only inside a directory.
WellFormed(t) ==
  \A p \in Universe :
    /\ t[p] \in Allowed(p)
    /\ (Len(p) > 1 /\ t[p] # "none") => t[Front(p)] = "dir"

Trees == { t \in [Universe -> {"dir", "file", "other", "none"}] : WellFormed(t) }

\* st_size of an entry, by its name (every kind of entry has one).
StSize(p) ==
  CASE Last(p) = "a" -> 100
    [] Last(p) = "c" -> 50
    [] Last(p) = "e" -> 25
    [] Last(p) = "g" -> 7
    [] OTHER -> 64

VARIABLES
  platform,      \* the build: "posix" or "win32" (#ifdef _WIN32)
  entry,         \* the entry point called: "size" or "recursion"
  tree,          \* the file system: Universe -> kind
  max_deepth,    \* the parameter max_deepth of the recursion function
  pc,            \* the position of the call
  dir_list,      \* head of the worklist (a block id, or NULL)
  nodes,         \* block id -> the dir_list_t stored there
  strs,          \* block id -> the path string stored there
  allocated,     \* the blocks obtained from the allocator and not yet deallocated
  nblocks,       \* number of blocks handed out (block ids are never reused)
  alloc_calls,   \* number of allocate requests made (failed ones included)
  dir,           \* the variable dir / handle: a handle id, or NULL
  open_handles,  \* the handles opened and not yet closed
  nhandles,      \* number of handles handed out
  pending,       \* the entries the open handle has not returned yet
  scan_dir,      \* the directory the open handle lists (its resolved path)
  dir_size,      \* the accumulator dir_size
  result,        \* the value returned (when pc = "done")
  failed,        \* the failure that ended the call, or "none"
  opened,        \* history: the paths opened, the directory, the node and its depth
  classified,    \* history: the entries passed to rcutils_is_directory in a scan
  sized,         \* history: the entries passed to rcutils_get_file_size
  pushed,        \* history: the entries pushed as worklist nodes
  pushes,        \* history: the pushes in order (new node, head it was found under)
  bad_free,      \* a block was deallocated that was not outstanding
  bad_read,      \* a worklist node was read after it was deallocated
  bad_close,     \* a handle was closed that was not open
  calls,         \* number of calls started
  prev_result,   \* the value the previous call returned
  prev_failed    \* the failure of the previous call ("none": none, "-": no call yet)

inputs == <<platform, entry, tree>>
heap == <<dir_list, nodes, strs, allocated, nblocks, alloc_calls>>
handle == <<dir, open_handles, nhandles, pending, scan_dir>>
history == <<opened, classified, sized, pushed, pushes>>
flags == <<bad_free, bad_read, bad_close>>
previous == <<calls, prev_result, prev_failed>>
vars == <<inputs, max_deepth, pc, heap, handle, dir_size, result, failed,
          history, flags, previous>>

\* The kind of the entry a resolved path names; the working directory, <<>>,
\* is a directory.
KindAt(q) ==
  IF q = <<>> THEN "dir"
  ELSE IF q \in Universe THEN tree[q]
  ELSE "none"

\* Path resolution of stat(), opendir() and FindFirstFile(): component by
\* component, "." stays, ".." goes up, and every component but the last is
\* looked up in a directory.  <<"?">> stands for a path that does not resolve.
RECURSIVE Walk(_, _)
Walk(p, cur) ==
  IF p = <<>> THEN cur
  ELSE IF KindAt(cur) # "dir" THEN <<"?">>
  ELSE LET h == Head(p) IN
       IF h = "." THEN Walk(Tail(p), cur)
       ELSE IF h = ".." THEN Walk(Tail(p), IF cur = <<>> THEN <<>> ELSE Front(cur))
       ELSE Walk(Tail(p), Append(cur, h))

\* stat(): the kind of the entry the path names ("none": stat() < 0).
stat(p) == KindAt(Walk(p, <<>>))

rcutils_is_directory(abs_path) == stat(abs_path) = "dir"

rcutils_is_file(abs_path) == stat(abs_path) = "file"

rcutils_get_file_size(file_path) ==
  IF ~rcutils_is_file(file_path) THEN 0 ELSE StSize(Walk(file_path, <<>>))

\* What rcutils_join_path and rcutils_strdup build (the block they allocate is
\* accounted for by the caller's action).  A path is the sequence of its
\* components, so joining with RCUTILS_PATH_DELIMITER appends one component.
rcutils_join_path(left_hand_path, right_hand_path) ==
  Append(left_hand_path, right_hand_path)

rcutils_strdup(str) == str

\* The names a listing of directory q returns.
Listing(q) ==
  {".", ".."} \cup
  { Last(u) : u \in { v \in Universe : /\ Len(v) = Len(q) + 1
                                       /\ Front(v) = q
                                       /\ tree[v] # "none" } }

\* opendir(path): whether it succeeds, the directory it lists, its entries.
opendir(path) ==
  LET q == Walk(path, <<>>) IN
  IF KindAt(q) = "dir" THEN [ok |-> TRUE, of |-> q, entries |-> Listing(q)]
  ELSE [ok |-> FALSE, of |-> <<>>, entries |-> {}]

\* FindFirstFile(pattern): a pattern ending in the wildcard lists the directory
\* before it; a pattern without wildcard matches the one entry it names.
FindFirstFile(pattern) ==
  IF Last(pattern) = "*"
  THEN opendir(Front(pattern))
  ELSE IF stat(pattern) # "none"
       THEN [ok |-> TRUE, of |-> Walk(Front(pattern), <<>>),
             entries |-> {Last(pattern)}]
       ELSE [ok |-> FALSE, of |-> <<>>, entries |-> {}]

(* --------------------------------------------------------- the allocator *)

\* allocator.deallocate(p): NULL is accepted; a block not outstanding is a
\* double free.
deallocate(p, h) ==
  IF p = NULL THEN h
  ELSE IF p \in h.alloc THEN [h EXCEPT !.alloc = @ \ {p}]
  ELSE [h EXCEPT !.bfree = TRUE]

\* A free_dir_list without its loop: only the node it is given is freed.
free_dir_list_head_only(d, h) ==
  deallocate(d, deallocate(nodes[d].path, [h EXCEPT !.bread = @ \/ (d \notin h.alloc)]))

\* A free_dir_list that frees the nodes and forgets their paths.
RECURSIVE free_dir_list_nodes_only(_, _)
free_dir_list_nodes_only(d, h) ==
  LET next_dir == nodes[d].next
      h1 == deallocate(d, [h EXCEPT !.bread = @ \/ (d \notin h.alloc)])
  IN IF next_dir = NULL THEN h1 ELSE free_dir_list_nodes_only(next_dir, h1)

\* free_dir_list: free every node from dir_list on, with its path.
RECURSIVE free_dir_list(_, _)
free_dir_list(d, h) ==
  LET next_dir == nodes[d].next
      h1 == [h EXCEPT !.bread = @ \/ (d \notin h.alloc)]
      h2 == deallocate(nodes[d].path, h1)
      h3 == deallocate(d, h2)
  IN IF next_dir = NULL THEN h3 ELSE free_dir_list(next_dir, h3)

\* The allocator's state as free_dir_list and deallocate see it.
Heap == [alloc |-> allocated, bfree |-> bad_free, bread |-> bad_read]

(* ------------------------------------------------------------- the calls *)

FirstPc(e) == IF e = "size" THEN "check_dir" ELSE "alloc_root"

\* The call-local state before the call's first step.
CallState ==
  /\ dir_list = NULL
  /\ nodes = << >>
  /\ strs = << >>
  /\ allocated = {}
  /\ nblocks = 0
  /\ alloc_calls = 0
  /\ dir = NULL
  /\ open_handles = {}
  /\ nhandles = 0
  /\ pending = {}
  /\ scan_dir = <<>>
  /\ dir_size = 0
  /\ result = 0
  /\ failed = "none"
  /\ opened = << >>
  /\ classified = {}
  /\ sized = {}
  /\ pushed = {}
  /\ pushes = << >>
  /\ bad_free = FALSE
  /\ bad_read = FALSE
  /\ bad_close = FALSE

\* The same, of the state a new call starts in.
CallReset ==
  /\ dir_list' = NULL
  /\ nodes' = << >>
  /\ strs' = << >>
  /\ allocated' = {}
  /\ nblocks' = 0
  /\ alloc_calls' = 0
  /\ dir' = NULL
  /\ open_handles' = {}
  /\ nhandles' = 0
  /\ pending' = {}
  /\ scan_dir' = <<>>
  /\ dir_size' = 0
  /\ result' = 0
  /\ failed' = "none"
  /\ opened' = << >>
  /\ classified' = {}
  /\ sized' = {}
  /\ pushed' = {}
  /\ pushes' = << >>
  /\ bad_free' = FALSE
  /\ bad_read' = FALSE
  /\ bad_close' = FALSE

Init ==
  /\ platform \in {"posix", "win32"}
  /\ entry \in {"size", "recursion"}
  /\ tree \in Trees
  /\ max_deepth \in (IF entry = "recursion"
                     THEN (0 .. MaxDepthArg) \cup {UINT32_MAX}
                     ELSE {0})
  /\ pc = FirstPc(entry)
  /\ CallState
  /\ calls = 1
  /\ prev_result = 0
  /\ prev_failed = "-"

\* rcutils_calculate_directory_size passes this max_deepth.
ConvenienceDepth == 1

\* The depth given to the node of directory_path.
RootDepth == 1

\* A child that gets the depth of the directory it was found in.
ChildDepth_same(depth) == depth

\* found_new_dir->depth = dir_list->depth + 1
ChildDepth(depth) == uint32_inc(depth)

\* A skip test that knows `.` and forgets `..`.
IsDotEntry_dot_only(d_name) == d_name = "."

\* Skip over local folder handle (`.`) and parent folder (`..`): the entry is
\* processed when both strcmp differ from 0.
IsDotEntry(d_name) == d_name = "." \/ d_name = ".."

\* (max_deepth == 0) || ((dir_list->depth + 1) <= max_deepth)
DepthAllows(depth) ==
  (max_deepth = 0) \/ uint32_le(uint32_inc(depth), max_deepth)

\* rcutils_calculate_directory_size: the directory check, then the call with
\* max_deepth 1.
CalculateDirectorySize ==
  /\ pc = "check_dir"
  /\ IF ~rcutils_is_directory(directory_path)
     THEN /\ pc' = "done"
          /\ result' = 0
          /\ failed' = "not_a_directory"
          /\ UNCHANGED max_deepth
     ELSE /\ pc' = "alloc_root"
          /\ max_deepth' = ConvenienceDepth
          /\ UNCHANGED <<result, failed>>
  /\ UNCHANGED <<inputs, heap, handle, dir_size, history, flags, previous>>

\* dir_list = allocator.allocate(sizeof(dir_list_t)); NULL: return 0.
AllocRoot ==
  /\ pc = "alloc_root"
  /\ alloc_calls' = alloc_calls + 1
  /\ \E ok \in BOOLEAN :
       IF ok
       THEN /\ nblocks' = nblocks + 1
            /\ allocated' = allocated \cup {nblocks + 1}
            /\ dir_list' = nblocks + 1
            /\ pc' = "init_root"
            /\ UNCHANGED <<result, failed>>
       ELSE /\ pc' = "done"
            /\ result' = 0
            /\ failed' = "alloc_root"
            /\ UNCHANGED <<nblocks, allocated, dir_list>>
  /\ UNCHANGED <<inputs, max_deepth, nodes, strs, handle, dir_size, history,
                 flags, previous>>

\* The path the root node gets: the copy of directory_path (POSIX), the
\* search pattern directory_path\* (_WIN32).
RootPath ==
  IF platform = "win32"
  THEN rcutils_join_path(directory_path, "*")
  ELSE rcutils_strdup(directory_path)

\* next = NULL, depth = 1, path = the root path; NULL path: goto fail.
InitRoot ==
  /\ pc = "init_root"
  /\ alloc_calls' = alloc_calls + 1
  /\ \E ok \in BOOLEAN :
       IF ok
       THEN /\ nblocks' = nblocks + 1
            /\ allocated' = allocated \cup {nblocks + 1}
            /\ strs' = (nblocks + 1 :> RootPath) @@ strs
            /\ nodes' = (dir_list :> [path |-> nblocks + 1, depth |-> RootDepth,
                                      next |-> NULL]) @@ nodes
            /\ pc' = "open"
            /\ UNCHANGED failed
       ELSE /\ nodes' = (dir_list :> [path |-> NULL, depth |-> RootDepth,
                                      next |-> NULL]) @@ nodes
            /\ pc' = "fail"
            /\ failed' = "root_path"
            /\ UNCHANGED <<nblocks, allocated, strs>>
  /\ UNCHANGED <<inputs, max_deepth, dir_list, handle, dir_size, result,
                 history, flags, previous>>

\* What opening the head's path gives in this build.
OpenResult(path) ==
  IF platform = "win32" THEN FindFirstFile(path) ELSE opendir(path)

\* dir = opendir(dir_list->path) / handle = FindFirstFile(dir_list->path, ..);
\* NULL / INVALID_HANDLE_VALUE: goto fail.  The open may also fail on a
\* directory (permission denied, removed since it was listed).
OpenDir ==
  /\ pc = "open"
  /\ nhandles < MaxOpens
  /\ LET path == strs[nodes[dir_list].path]
         r == OpenResult(path)
     IN \E os_ok \in BOOLEAN :
          IF r.ok /\ os_ok
          THEN /\ dir' = nhandles + 1
               /\ nhandles' = nhandles + 1
               /\ open_handles' = open_handles \cup {nhandles + 1}
               /\ pending' = r.entries
               /\ scan_dir' = r.of
               /\ opened' = Append(opened, [path |-> path, dir |-> r.of,
                                            depth |-> nodes[dir_list].depth,
                                            node |-> dir_list])
               /\ pc' = "scan"
               /\ UNCHANGED failed
          ELSE /\ dir' = NULL
               /\ pc' = "fail"
               /\ failed' = "open"
               /\ UNCHANGED <<nhandles, open_handles, pending, scan_dir, opened>>
  /\ UNCHANGED <<inputs, max_deepth, heap, dir_size, result, classified, sized,
                 pushed, pushes, flags, previous>>

\* A close that is forgotten: the handle stays open.
closedir_forgotten(h) == UNCHANGED <<open_handles, bad_close>>

\* closedir(dir) / FindClose(handle): the handle is open no more.
closedir(h) ==
  /\ open_handles' = open_handles \ {h}
  /\ bad_close' = (bad_close \/ h \notin open_handles)

\* A push to the back of the worklist (a queue instead of a stack).
PushNewDir_to_back(found_new_dir, file_path) ==
  LET RECURSIVE LastNode(_)
      LastNode(d) == IF nodes[d].next = NULL THEN d ELSE LastNode(nodes[d].next)
  IN (found_new_dir :> [path |-> file_path,
                        depth |-> ChildDepth(nodes[dir_list].depth),
                        next |-> NULL])
     @@ [nodes EXCEPT ![LastNode(dir_list)].next = found_new_dir]

\* A push that does not link the new node to the pending ones.
PushNewDir_unlinked(found_new_dir, file_path) ==
  (found_new_dir :> [path |-> file_path,
                     depth |-> ChildDepth(nodes[dir_list].depth),
                     next |-> NULL])
  @@ [nodes EXCEPT ![dir_list].next = found_new_dir]

\* found_new_dir->path = file_path; ->depth = dir_list->depth + 1;
\* ->next = dir_list->next; dir_list->next = found_new_dir.
PushNewDir(found_new_dir, file_path) ==
  (found_new_dir :> [path |-> file_path,
                     depth |-> ChildDepth(nodes[dir_list].depth),
                     next |-> nodes[dir_list].next])
  @@ [nodes EXCEPT ![dir_list].next = found_new_dir]

\* One turn of the scan loop: readdir / FindNextFile returns an entry (the
\* listing order is the file system's), and the loop body handles it.
ScanEntry ==
  /\ pc = "scan"
  /\ pending # {}
  /\ \E d_name \in pending, join_ok \in BOOLEAN, node_ok \in BOOLEAN :
       LET head == nodes[dir_list]
           path == rcutils_join_path(strs[head.path], d_name)
           file_path == nblocks + 1
           found_new_dir == nblocks + 2
           \* history: the path built, and the entry of the tree it was built for
           ent == [path |-> path, entry |-> Append(scan_dir, d_name)]
       IN
       /\ pending' = pending \ {d_name}
       /\ IF IsDotEntry(d_name)
          THEN UNCHANGED <<heap, dir_size, failed, pc, classified, sized, pushed,
                           pushes, bad_free>>
          ELSE IF ~join_ok
          THEN \* rcutils_join_path returned NULL
               /\ alloc_calls' = alloc_calls + 1
               /\ failed' = "join"
               /\ pc' = "fail"
               /\ UNCHANGED <<dir_list, nodes, strs, allocated, nblocks, dir_size,
                              classified, sized, pushed, pushes, bad_free>>
          ELSE IF rcutils_is_directory(path)
          THEN IF DepthAllows(head.depth)
               THEN IF node_ok
                    THEN \* Add new directory to dir_list
                         /\ alloc_calls' = alloc_calls + 2
                         /\ nblocks' = nblocks + 2
                         /\ allocated' = allocated \cup {file_path, found_new_dir}
                         /\ strs' = (file_path :> path) @@ strs
                         /\ nodes' = PushNewDir(found_new_dir, file_path)
                         /\ classified' = classified \cup {ent}
                         /\ pushed' = pushed \cup {ent}
                         /\ pushes' = Append(pushes, [node |-> found_new_dir,
                                                      head |-> dir_list,
                                                      entry |-> ent.entry])
                         /\ UNCHANGED <<dir_list, dir_size, failed, pc, sized,
                                        bad_free>>
                    ELSE \* found_new_dir is NULL: goto fail, file_path kept
                         /\ alloc_calls' = alloc_calls + 2
                         /\ nblocks' = nblocks + 1
                         /\ allocated' = allocated \cup {file_path}
                         /\ strs' = (file_path :> path) @@ strs
                         /\ classified' = classified \cup {ent}
                         /\ failed' = "alloc_node"
                         /\ pc' = "fail"
                         /\ UNCHANGED <<dir_list, nodes, dir_size, sized, pushed,
                                        pushes, bad_free>>
               ELSE \* beyond max_deepth: nothing is done with file_path
                    /\ alloc_calls' = alloc_calls + 1
                    /\ nblocks' = nblocks + 1
                    /\ allocated' = allocated \cup {file_path}
                    /\ strs' = (file_path :> path) @@ strs
                    /\ classified' = classified \cup {ent}
                    /\ UNCHANGED <<dir_list, nodes, dir_size, failed, pc, sized,
                                   pushed, pushes, bad_free>>
          ELSE \* dir_size += rcutils_get_file_size(file_path); deallocate
               LET h == deallocate(file_path,
                                   [Heap EXCEPT !.alloc = @ \cup {file_path}])
               IN
               /\ alloc_calls' = alloc_calls + 1
               /\ nblocks' = nblocks + 1
               /\ allocated' = h.alloc
               /\ bad_free' = h.bfree
               /\ strs' = (file_path :> path) @@ strs
               /\ dir_size' = dir_size + rcutils_get_file_size(path)
               /\ classified' = classified \cup {ent}
               /\ sized' = sized \cup {[path |-> path, entry |-> ent.entry,
                                          size |-> rcutils_get_file_size(path)]}
               /\ UNCHANGED <<dir_list, nodes, failed, pc, pushed, pushes>>
  /\ UNCHANGED <<inputs, max_deepth, dir, open_handles, nhandles, scan_dir,
                 result, opened, bad_read, bad_close, previous>>

\* A loop that forgets to step to the next node.
NextDir_stay(d) == d

\* next_dir = dir_list->next
NextDir(d) == nodes[d].next

\* The listing is exhausted: close the handle, free the head and its path,
\* go on with the next node; return dir_size when there is none.
CloseAndNext ==
  /\ pc = "scan"
  /\ pending = {}
  /\ closedir(dir)
  /\ LET next_dir == NextDir(dir_list)
         h == deallocate(dir_list, deallocate(nodes[dir_list].path, Heap))
     IN
     /\ allocated' = h.alloc
     /\ bad_free' = h.bfree
     /\ dir_list' = next_dir
     /\ IF next_dir # NULL
        THEN pc' = "open" /\ UNCHANGED result
        ELSE pc' = "done" /\ result' = dir_size
  /\ UNCHANGED <<inputs, max_deepth, nodes, strs, nblocks, alloc_calls, dir,
                 nhandles, pending, scan_dir, dir_size, failed, history,
                 bad_read, previous>>

\* A fail exit that returns dir_size without freeing the worklist.
FailWithoutFree ==
  /\ pc = "fail"
  /\ IF dir # NULL THEN closedir(dir) ELSE UNCHANGED <<open_handles, bad_close>>
  /\ result' = dir_size
  /\ pc' = "done"
  /\ UNCHANGED <<inputs, max_deepth, heap, dir, nhandles, pending, scan_dir,
                 dir_size, failed, history, bad_free, bad_read, previous>>

\* fail: close the handle if there is one, free_dir_list, return dir_size.
Fail ==
  /\ pc = "fail"
  /\ IF dir # NULL THEN closedir(dir) ELSE UNCHANGED <<open_handles, bad_close>>
  /\ LET h == free_dir_list(dir_list, Heap) IN
     /\ allocated' = h.alloc
     /\ bad_free' = h.bfree
     /\ bad_read' = h.bread
  /\ result' = dir_size
  /\ pc' = "done"
  /\ UNCHANGED <<inputs, max_deepth, dir_list, nodes, strs, nblocks,
                 alloc_calls, dir, nhandles, pending, scan_dir, dir_size,
                 failed, history, previous>>

\* The caller calls again, with the same arguments, on the same tree.
Recall ==
  /\ pc = "done"
  /\ calls < MaxCalls
  /\ calls' = calls + 1
  /\ prev_result' = result
  /\ prev_failed' = failed
  /\ pc' = FirstPc(entry)
  /\ max_deepth' = (IF entry = "size" THEN 0 ELSE max_deepth)
  /\ CallReset
  /\ UNCHANGED inputs

\* The steps of one call.
Call ==
  \/ CalculateDirectorySize
  \/ AllocRoot
  \/ InitRoot
  \/ OpenDir
  \/ ScanEntry
  \/ CloseAndNext
  \/ Fail

Next == Call \/ Recall

Spec == Init /\ [][Next]_vars

\* One call, which runs on once started: the function is single-threaded and
\* synchronous, every step it can take it takes.
FairSpec == Init /\ [][Call]_vars /\ WF_vars(Call)

(* ------------------------------------------------ what the claims speak of *)

\* The regular files of the tree, and those whose containing directory is at
\* depth <= k, the root directory being at depth 1 (k = 0: all of them).
RegularFiles == { p \in Universe : Len(p) > 1 /\ tree[p] = "file" }

FilesWithin(k) ==
  { p \in RegularFiles : k = 0 \/ uint32_le(Len(p) - 1, k) }

RECURSIVE SumSizes(_)
SumSizes(S) ==
  IF S = {} THEN 0
  ELSE LET p == CHOOSE x \in S : TRUE IN StSize(p) + SumSizes(S \ {p})

ExpectedTotal(k) == SumSizes(FilesWithin(k))

\* The nodes linked from node d on (d = NULL: none).
RECURSIVE ListFrom(_)
ListFrom(d) ==
  IF d = NULL \/ d \notin DOMAIN nodes THEN {}
  ELSE {d} \cup ListFrom(nodes[d].next)

\* The call returned without any failure.
ReturnedClean == pc = "done" /\ failed = "none"

\* The call returned through a failure exit of the recursion function.
Failures == {"alloc_root", "root_path", "open", "join", "alloc_node"}

ReturnedFailed == pc = "done" /\ failed \in Failures

(* ---------------------------------------------------------------- claims *)

\* C1: a call that meets no failure returns exactly the sum of the sizes of
\* the regular files whose containing directory is at depth <= max_deepth
\* (all regular files when max_deepth = 0); other entries add 0.
C1_ExactSum == ReturnedClean => result = ExpectedTotal(max_deepth)

\* The same of the POSIX build alone.
PosixExactSum ==
  (platform = "posix" /\ ReturnedClean) => result = ExpectedTotal(max_deepth)

\* The entries of the tree a history set names.
Entries(hist) == { h.entry : h \in hist }

\* Depth limiting, with max_deepth = k # 0: no pending node and no opened
\* directory is deeper than k, a file below depth k is never sized, and a call
\* that meets no failure has added every file of a directory at depth <= k.
\* With max_deepth = 0: every directory found by a scan is pushed (unless the
\* allocation of its node failed, which ends the call).
DepthExact ==
  /\ (max_deepth # 0 /\ pc \notin {"alloc_root", "init_root", "done"}) =>
       \A n \in ListFrom(dir_list) : uint32_le(nodes[n].depth, max_deepth)
  /\ max_deepth # 0 =>
       /\ \A i \in 1 .. Len(opened) :
            /\ uint32_le(opened[i].depth, max_deepth)
            /\ uint32_le(Len(opened[i].dir), max_deepth)
       /\ \A p \in RegularFiles \ FilesWithin(max_deepth) : p \notin Entries(sized)
  /\ (max_deepth # 0 /\ ReturnedClean) =>
       \A p \in FilesWithin(max_deepth) :
         \E h \in sized : h.entry = p /\ h.size = StSize(p)
  /\ max_deepth = 0 =>
       \A h \in classified :
         KindAt(h.entry) = "dir" => (h \in pushed \/ failed = "alloc_node")

\* C2: depth limiting is exact: files of directories at depth max_deepth are
\* added, deeper ones never are, and with max_deepth = 0 every subdirectory
\* found is pushed.
C2_DepthExact == DepthExact

\* The same of the POSIX build alone.
PosixDepthExact == platform = "posix" => DepthExact

\* C3: when the call returns through a failure exit, every block obtained
\* from the allocator during the call has been deallocated.
C3_NoLeakOnFailure == ReturnedFailed => allocated = {}

\* C4: on a failure exit every node linked from the head, and its path, is
\* outstanding when the exit is taken and deallocated when the call has
\* returned; no block is deallocated twice and no node is read after it was
\* deallocated.
C4_FailureFreesList ==
  /\ pc = "fail" =>
       \A n \in ListFrom(dir_list) :
         /\ n \in allocated
         /\ nodes[n].path = NULL \/ nodes[n].path \in allocated
  /\ (ReturnedFailed /\ failed # "alloc_root") =>
       /\ dir_list # NULL
       /\ \A n \in ListFrom(dir_list) :
            n \notin allocated /\ nodes[n].path \notin allocated
       /\ ~bad_free
       /\ ~bad_read

\* A failure exit taken with three nodes linked from the head.
C4_Witness ==
  /\ ReturnedFailed
  /\ failed \in {"join", "open"}
  /\ Cardinality(ListFrom(dir_list)) = 3

\* C5 as stated: the recursion function, called on a path that is not a
\* directory, returns 0 and allocates no worklist node.
C5_NoNodeAllocated ==
  (pc = "done" /\ entry = "recursion" /\ ~rcutils_is_directory(directory_path))
    => (result = 0 /\ nblocks = 0)

\* C5 amended: the recursion function, called on a path that is not a
\* directory, opens no directory, pushes no node, obtains at most the root
\* node and the root path string, and returns 0 with both deallocated.
C5_NotADirectory ==
  (entry = "recursion" /\ ~rcutils_is_directory(directory_path)) =>
    /\ opened = << >>
    /\ pushed = {}
    /\ nblocks <= 2
    /\ pc = "done" => (result = 0 /\ allocated = {} /\ ~bad_free)

\* The open of a regular file's path has failed and the call has returned.
C5_Witness ==
  /\ pc = "done"
  /\ entry = "recursion"
  /\ tree[directory_path] = "file"
  /\ failed = "open"
  /\ nblocks = 2

\* C6: a failure ends the traversal (no directory is opened after it) and the
\* call returns the sum of the sizes of the entries sized before it, which is
\* at most the total of the failure-free traversal.
C6_PartialResult ==
  /\ failed \in Failures => pc \in {"fail", "done"}
  /\ ReturnedFailed =>
       /\ result = SumSizes(Entries(sized) \cap RegularFiles)
       /\ result <= ExpectedTotal(max_deepth)

\* The same of the POSIX build alone.
PosixPartialResult == platform = "posix" => C6_PartialResult

\* C7: when the allocation of the root node or of the root path fails, the
\* call returns 0, has opened no directory, has requested no further
\* allocation and leaves no block outstanding.
C7_InitialAllocationFailure ==
  failed \in {"alloc_root", "root_path"} =>
    /\ pc \in {"fail", "done"}
    /\ opened = << >>
    /\ nhandles = 0
    /\ classified = {}
    /\ alloc_calls = (IF failed = "alloc_root" THEN 1 ELSE 2)
    /\ ~bad_free /\ ~bad_read /\ ~bad_close
    /\ pc = "done" => (result = 0 /\ allocated = {})

\* The copy of the root path failed and the call has returned.
C7_Witness == pc = "done" /\ failed = "root_path" /\ nblocks = 1

\* No `.` or `..` entry was classified, sized or pushed.
DotsSkipped ==
  \A e \in Entries(classified) \cup Entries(sized) \cup Entries(pushed) :
    ~(Last(e) \in {".", ".."})

\* C8: every call returns (the worklist runs empty or a failure exit is
\* taken), and the `.` and `..` entries are never classified, never pushed
\* and never sized.
C8_Terminates == <>(pc = "done") /\ []DotsSkipped

\* A failure-free unlimited call has returned after listing four
\* directories, each with its `.` and `..`.
C8_Witness ==
  /\ ReturnedClean
  /\ max_deepth = 0
  /\ Len(opened) = 4
  /\ DotsSkipped

\* C9: two calls on the same tree with the same max_deepth that meet no
\* failure return the same total, whatever the order of the listings.
C9_SameTotal ==
  (pc = "done" /\ failed = "none" /\ prev_failed = "none") => result = prev_result

\* A second failure-free call has returned after scanning three directories
\* or more, two of them siblings.
C9_Witness ==
  /\ pc = "done" /\ failed = "none" /\ prev_failed = "none"
  /\ calls = 2
  /\ Len(opened) >= 3
  /\ tree[<<"root", "a">>] = "dir" /\ tree[<<"root", "b">>] = "dir"
  /\ result > 0

\* C10: rcutils_calculate_directory_size returns 0 for a path that is not a
\* directory, without any allocator call and without opening a directory;
\* for a directory it calls the recursion function with max_deepth 1 and
\* returns the sizes of the regular files directly in the directory.
C10_ConvenienceEntry ==
  entry = "size" =>
    /\ ~rcutils_is_directory(directory_path) =>
         /\ pc \in {"check_dir", "done"}
         /\ alloc_calls = 0
         /\ nhandles = 0
         /\ pc = "done" => result = 0
    /\ pc \notin {"check_dir", "done"} => max_deepth = 1
    /\ ReturnedClean => result = SumSizes({ p \in RegularFiles : Len(p) = 2 })

\* The same of the POSIX build alone.
PosixConvenienceEntry == platform = "posix" => C10_ConvenienceEntry

\* The directories of the tree within the depth limit k (k = 0: all), the
\* root directory being at depth 1.
DirsWithin(k) ==
  { p \in Universe : tree[p] = "dir" /\ (k = 0 \/ uint32_le(Len(p), k)) }

\* The node of the i-th directory opened, and its path, are deallocated.
Freed(i) ==
  /\ opened[i].node \notin allocated
  /\ nodes[opened[i].node].path \notin allocated

\* While no failure has occurred: no directory is opened twice; when the
\* next directory is about to be opened, or the call has returned, no handle
\* is open and the node and the path of every directory opened so far are
\* deallocated; during a scan the node being scanned and its path are
\* outstanding and those opened before are deallocated; no block is
\* deallocated twice; and the call returns having opened every directory
\* within the depth limit.
ScannedOnceFreedOnce ==
  failed = "none" =>
    /\ \A i, j \in 1 .. Len(opened) : i < j => opened[i].dir # opened[j].dir
    /\ ~bad_free
    /\ pc \in {"open", "done"} =>
         /\ open_handles = {}
         /\ \A i \in 1 .. Len(opened) : Freed(i)
    /\ pc = "scan" =>
         /\ opened[Len(opened)].node = dir_list
         /\ dir_list \in allocated
         /\ nodes[dir_list].path \in allocated
         /\ \A i \in 1 .. Len(opened) - 1 : Freed(i)
    /\ pc = "done" =>
         { opened[i].dir : i \in 1 .. Len(opened) } = DirsWithin(max_deepth)

\* C11: in a failure-free traversal every directory within the depth limit is
\* opened and scanned exactly once, and its node and path are freed exactly
\* once, after its scan and before any other directory is opened.
C11_ScannedOnceFreedOnce == ScannedOnceFreedOnce

\* The same of the POSIX build alone.
PosixScannedOnceFreedOnce == platform = "posix" => ScannedOnceFreedOnce

\* The worklist from node d on, as the sequence of its nodes.
RECURSIVE ListSeq(_)
ListSeq(d) ==
  IF d = NULL \/ d \notin DOMAIN nodes THEN << >>
  ELSE <<d>> \o ListSeq(nodes[d].next)

\* When node n was discovered: its place among the pushes (0: the root node).
Discovered(n) ==
  IF \E i \in 1 .. Len(pushes) : pushes[i].node = n
  THEN CHOOSE i \in 1 .. Len(pushes) : pushes[i].node = n
  ELSE 0

\* The pushes made while node d was the head.
PushesUnder(d) == { i \in 1 .. Len(pushes) : pushes[i].head = d }

\* C12: the worklist is a stack.  While a directory is scanned none of the
\* subdirectories found in it has been opened, the pending nodes behind the
\* head are ordered latest discovery first, and when the next directory is
\* about to be opened the head is the latest discovery still pending: the
\* last subdirectory pushed during the scan just finished, if there is one.
C12_LatestDiscoveryFirst ==
  (failed = "none" /\ pc \in {"open", "scan"}) =>
    LET L == ListSeq(dir_list) IN
    /\ \A i, j \in 2 .. Len(L) : i < j => Discovered(L[i]) > Discovered(L[j])
    /\ pc = "scan" =>
         \A i \in PushesUnder(dir_list), j \in 1 .. Len(opened) :
           opened[j].node # pushes[i].node
    /\ pc = "open" =>
         /\ \A i \in 2 .. Len(L) : Discovered(L[1]) > Discovered(L[i])
         /\ (opened # << >> /\ PushesUnder(opened[Len(opened)].node) # {}) =>
              \A i \in PushesUnder(opened[Len(opened)].node) :
                Discovered(dir_list) >= i

\* The directory about to be opened was found in the scan just finished, and
\* it is ahead of a directory that was found in an earlier scan.
C12_Witness ==
  /\ failed = "none" /\ pc = "open" /\ opened # << >>
  /\ Len(ListSeq(dir_list)) >= 2
  /\ Discovered(dir_list) \in PushesUnder(opened[Len(opened)].node)
  /\ Discovered(ListSeq(dir_list)[2]) \in PushesUnder(opened[1].node)
  /\ Len(opened) >= 2

\* C13: every node reachable from the worklist head has depth >= 1: the node
\* of the root directory has depth 1, and every pushed node has the depth of
\* the node that was being scanned when it was pushed, plus 1 in uint32_t,
\* whatever max_deepth is (0, a small limit, the largest uint32_t).
C13_DepthAtLeastOne ==
  /\ \A n \in ListFrom(dir_list) : uint32_le(1, nodes[n].depth)
  /\ \A n \in DOMAIN nodes : Discovered(n) = 0 => nodes[n].depth = 1
  /\ \A i \in 1 .. Len(pushes) :
       nodes[pushes[i].node].depth = uint32_inc(nodes[pushes[i].head].depth)

\* Under the largest max_deepth a node of depth 3, pushed while a node of
\* depth 2 was scanned, is pending behind the head.
C13_Witness ==
  /\ max_deepth = UINT32_MAX
  /\ pc = "scan"
  /\ \E i \in 1 .. Len(pushes) :
       /\ pushes[i].node \in ListFrom(dir_list)
       /\ nodes[pushes[i].node].depth = 3
       /\ nodes[pushes[i].head].depth = 2

\* C14: in either build the path opened for the root directory is
\* directory_path itself (no search pattern), the path opened for any
\* directory is the path of that directory, the path classified and sized for
\* an entry is the path of the listed directory joined with the entry's name,
\* and so a call that meets no failure returns the total the POSIX build
\* returns, the sum over the files within the depth limit.
C14_PathIsJoin ==
  /\ opened # << >> => opened[1].path = directory_path
  /\ \A i \in 1 .. Len(opened) : opened[i].path = opened[i].dir
  /\ \A h \in classified \cup sized : h.path = h.entry
  /\ ReturnedClean => result = ExpectedTotal(max_deepth)

\* The same of the POSIX build alone.
PosixPathIsJoin == platform = "posix" => C14_PathIsJoin

\* The path strings that are allocated.
LiveStrings == allocated \cap DOMAIN strs

\* C15: while no failure has happened every path string that is allocated is
\* the path of exactly one node of the worklist (an entry's path is freed at
\* once or handed to the node pushed for it, also when the entry is a
\* directory beyond the depth limit), and so a call that meets no failure
\* returns with no allocation outstanding, whatever max_deepth is.
C15_EntryPathOwned ==
  failed = "none" =>
    /\ pc \in {"open", "scan"} =>
         \A b \in LiveStrings :
           Cardinality({ n \in ListFrom(dir_list) : nodes[n].path = b }) = 1
    /\ pc = "done" => allocated = {}

\* The same of the calls without a depth limit alone.
UnlimitedEntryPathOwned == max_deepth = 0 => C15_EntryPathOwned

\* C16: at most one directory handle is open at any time; no handle is open
\* when the next directory is about to be opened or when the call has
\* returned, by the normal exit or by a failure exit; and no close is ever
\* applied to a handle that is not open (closed already, or never opened).
C16_OneHandleClosedOnce ==
  /\ Cardinality(open_handles) <= 1
  /\ ~bad_close
  /\ pc \in {"open", "done"} => open_handles = {}
  /\ pc = "scan" => open_handles = {dir}

\* A call that opened a second directory and failed while scanning it has
\* returned, and a call that failed to open its second directory has returned.
C16_Witness ==
  /\ ReturnedFailed
  /\ \/ failed \in {"join", "alloc_node"} /\ nhandles >= 2
     \/ failed = "open" /\ nhandles >= 1
  /\ open_handles = {}

====
